---- MODULE Spec2Model ----
(***************************************************************************)
(* rustfuck: a brainfuck front end (lexer, parser), an optimizer pipeline   *)
(* over the instruction tree, a tree-walking interpreter and an LLVM code   *)
(* generator whose emitted program is modelled by the routines it emits.    *)
(*                                                                          *)
(* Representation notes.                                                    *)
(*  - An InstructionNode is the record                                      *)
(*      [node_type, amount, children, line, char];                          *)
(*    amount is the usize payload of Next/Previous/Increment/Decrement/     *)
(*    SetCell (0 for the other kinds), children the Vec of Program/Loop     *)
(*    (<<>> for the other kinds).                                           *)
(*  - A usize/i64 value v is represented by the integer r with              *)
(*    v = r mod 2^64 and |r| small: a negative r stands for 2^64 + r, the   *)
(*    value a wrapping subtraction below zero produces.                     *)
(*  - A tape (Vec<u8>, or the malloc'ed buffer) is [len, cells] where       *)
(*    cells maps exactly the indices holding a non-zero byte to that byte.  *)
(***************************************************************************)
EXTENDS Integers, Sequences, FiniteSets, TLC

\* ------------------------------------------------------------------ bounds

\* Longest source text the front end and the optimizer are run on.
MaxParseLen == 5
\* Longest source text over all eight instructions that is also executed.
MaxSrcLen == 4
\* Longest source text of pointer moves and outputs that is executed.
MaxMoveLen == 6
\* Multiples of the cell moduli around which instruction amounts are drawn.
MaxWraps == 2
\* Largest index at which a single instruction is exercised.
MaxOpIndex == 2
\* Longest input byte sequence offered to a run.
MaxInput == 1
\* Output bytes after which a run is no longer followed.
MaxOut == 3
\* Cells beyond the straight-line reach of the program after which a run
\* is no longer followed.
MaxIndex == 3
\* Longest sibling list of the trees the optimizer passes are run on.
MaxRun == 3

\* ------------------------------------------------------------- front end

\* The characters lex distinguishes: the eight instructions and the newline.
InstrChars == {">", "<", "+", "-", ".", ",", "[", "]"}

SrcChars == InstrChars \cup {"\n"}

BoundedSeq(S, n) == UNION {[1..k -> S] : k \in 0..n}

TokenTypeOf(c) ==
    CASE c = ">" -> "Next"
      [] c = "<" -> "Previous"
      [] c = "+" -> "Increment"
      [] c = "-" -> "Decrement"
      [] c = "." -> "Output"
      [] c = "," -> "Input"
      [] c = "[" -> "BeginLoop"
      [] c = "]" -> "EndLoop"

Token(t, l, c) == [token_type |-> t, line |-> l, char |-> c]

RECURSIVE LexFrom(_, _, _, _, _)
LexFrom(text, i, line, char, toks) ==
    IF i > Len(text) THEN toks
    ELSE IF text[i] = "\n" THEN LexFrom(text, i + 1, line + 1, 1, toks)
    ELSE IF text[i] \in InstrChars
         THEN LexFrom(text, i + 1, line, char + 1,
                      Append(toks, Token(TokenTypeOf(text[i]), line, char)))
    ELSE LexFrom(text, i + 1, line, char + 1, toks)

lex(text) == LexFrom(text, 1, 1, 1, <<>>)

\* InstructionNode constructors.
Node(t, a, ch, l, c) ==
    [node_type |-> t, amount |-> a, children |-> ch, line |-> l, char |-> c]

Leaf(t, a, l, c) == Node(t, a, <<>>, l, c)

NoNode == Node("None", 0, <<>>, 0, 0)

\* Result<InstructionNode, ParsingError> together with the context's index
\* after the call.
ParseOk(n, i) == [ok |-> TRUE, node |-> n, index |-> i,
                  err |-> "", line |-> 0, char |-> 0]

ParseErr(e, l, c, i) == [ok |-> FALSE, node |-> NoNode, index |-> i,
                         err |-> e, line |-> l, char |-> c]

is_end(toks, index) == index > Len(toks)

construct_node(toks, index, t, a) ==
    Leaf(t, a, toks[index].line, toks[index].char)

RECURSIVE parse_token(_, _)
RECURSIVE parse_loop(_, _)
RECURSIVE ParseLoopBody(_, _, _, _, _)

\* ParseLoopBody reporting where the tokens ran out instead of where the
\* loop began.
ParseLoopBodyReportsEnd(toks, index, children, begin_line, begin_char) ==
    IF is_end(toks, index)
    THEN ParseErr("UnmatchedBeginLoop", toks[Len(toks)].line,
                  toks[Len(toks)].char, index)
    ELSE IF toks[index].token_type = "EndLoop"
    THEN ParseOk(Node("Loop", 0, children, begin_line, begin_char), index)
    ELSE LET r == parse_token(toks, index)
         IN IF r.ok
            THEN ParseLoopBody(toks, r.index, Append(children, r.node),
                               begin_line, begin_char)
            ELSE r

\* The loop of parse_loop after the opening bracket has been consumed.
ParseLoopBody(toks, index, children, begin_line, begin_char) ==
    IF is_end(toks, index)
    THEN ParseErr("UnmatchedBeginLoop", begin_line, begin_char, index)
    ELSE IF toks[index].token_type = "EndLoop"
    THEN ParseOk(Node("Loop", 0, children, begin_line, begin_char), index)
    ELSE LET r == parse_token(toks, index)
         IN IF r.ok
            THEN ParseLoopBody(toks, r.index, Append(children, r.node),
                               begin_line, begin_char)
            ELSE r

parse_loop(toks, index) ==
    ParseLoopBody(toks, index + 1, <<>>, toks[index].line, toks[index].char)

\* The token kinds that become a single-count node, and its payload.
SimpleKinds ==
    {"Next", "Previous", "Increment", "Decrement", "Output", "Input"}

SimpleAmount(t) == IF t \in {"Output", "Input"} THEN 0 ELSE 1

\* parse_token leaving the closing bracket of a loop unconsumed.
parse_token_keeps_end(toks, index) ==
    LET c == toks[index]
    IN IF c.token_type \in SimpleKinds
       THEN ParseOk(construct_node(toks, index, c.token_type,
                                   SimpleAmount(c.token_type)), index + 1)
       ELSE IF c.token_type = "BeginLoop" THEN parse_loop(toks, index)
       ELSE ParseErr("UnmatchedEndLoop", c.line, c.char, index)

\* parse_token reporting an unmatched closing bracket with line and char
\* exchanged.
parse_token_swaps_pos(toks, index) ==
    LET c == toks[index]
    IN IF c.token_type \in SimpleKinds
       THEN ParseOk(construct_node(toks, index, c.token_type,
                                   SimpleAmount(c.token_type)), index + 1)
       ELSE IF c.token_type = "BeginLoop"
       THEN LET r == parse_loop(toks, index)
            IN IF r.ok THEN ParseOk(r.node, r.index + 1) ELSE r
       ELSE ParseErr("UnmatchedEndLoop", c.char, c.line, index)

parse_token(toks, index) ==
    LET c == toks[index]
        simple(t) == ParseOk(construct_node(toks, index, t, 1), index + 1)
    IN CASE c.token_type = "Next" -> simple("Next")
         [] c.token_type = "Previous" -> simple("Previous")
         [] c.token_type = "Increment" -> simple("Increment")
         [] c.token_type = "Decrement" -> simple("Decrement")
         [] c.token_type = "Output" ->
                ParseOk(construct_node(toks, index, "Output", 0), index + 1)
         [] c.token_type = "Input" ->
                ParseOk(construct_node(toks, index, "Input", 0), index + 1)
         [] c.token_type = "BeginLoop" ->
                LET r == parse_loop(toks, index)
                IN IF r.ok THEN ParseOk(r.node, r.index + 1) ELSE r
         [] c.token_type = "EndLoop" ->
                ParseErr("UnmatchedEndLoop", c.line, c.char, index)

RECURSIVE ParseAllLoop(_, _, _)
ParseAllLoop(toks, index, nodes) ==
    IF is_end(toks, index)
    THEN ParseOk(Node("Program", 0, nodes, 0, 0), index)
    ELSE LET r == parse_token(toks, index)
         IN IF r.ok THEN ParseAllLoop(toks, r.index, Append(nodes, r.node))
            ELSE r

parse_all(toks) == ParseAllLoop(toks, 1, <<>>)

parse(toks) == parse_all(toks)

\* -------------------------------------------------------------- optimizer

IsList(n) == n.node_type \in {"Program", "Loop"}

RECURSIVE DropLeadingLoops(_)
DropLeadingLoops(nodes) ==
    IF Len(nodes) # 0 /\ nodes[1].node_type = "Loop"
    THEN DropLeadingLoops(Tail(nodes))
    ELSE nodes

\* remove_comment_loop with an `if` for the `while`: one loop is removed.
remove_first_loop(program) ==
    IF /\ program.node_type = "Program"
       /\ Len(program.children) # 0
       /\ program.children[1].node_type = "Loop"
    THEN [program EXCEPT !.children = Tail(@)]
    ELSE program

\* remove_comment_loop dropping every Loop of the Program's children.
NotALoop(n) == n.node_type # "Loop"

remove_every_loop(program) ==
    IF program.node_type = "Program"
    THEN [program EXCEPT !.children = SelectSeq(@, NotALoop)]
    ELSE program

remove_comment_loop(program) ==
    IF program.node_type = "Program"
    THEN [program EXCEPT !.children = DropLeadingLoops(@)]
    ELSE program

RECURSIVE collapse_kind(_, _)
RECURSIVE CollapseFrom(_, _, _, _, _, _, _, _)

\* The for loop of collapse_node_list and the flush after it; has/incr are
\* current_incr (None / Some(incr)), cl/cc are current_line/current_char.
CollapseFrom(nodes, i, kind, new_nodes, has, incr, cl, cc) ==
    LET flushed == IF has THEN Append(new_nodes, Leaf(kind, incr, cl, cc))
                   ELSE new_nodes
    IN IF i > Len(nodes) THEN flushed
       ELSE IF nodes[i].node_type = kind
       THEN IF has
            THEN CollapseFrom(nodes, i + 1, kind, new_nodes, TRUE,
                              incr + nodes[i].amount, cl, cc)
            ELSE CollapseFrom(nodes, i + 1, kind, new_nodes, TRUE,
                              nodes[i].amount, nodes[i].line, nodes[i].char)
       ELSE CollapseFrom(nodes, i + 1, kind,
                         Append(flushed, collapse_kind(nodes[i], kind)),
                         FALSE, 0, cl, cc)

\* collapse_node_list keeping the merged count in a byte.
collapse_node_list_u8(nodes, kind) ==
    LET merged == CollapseFrom(nodes, 1, kind, <<>>, FALSE, 0, 0, 0)
    IN [i \in 1..Len(merged) |->
          IF merged[i].node_type = kind
          THEN [merged[i] EXCEPT !.amount = @ % 256]
          ELSE merged[i]]

collapse_node_list(nodes, kind) ==
    CollapseFrom(nodes, 1, kind, <<>>, FALSE, 0, 0, 0)

\* collapse_next with the merged node kind as a parameter.
collapse_kind(program, kind) ==
    IF IsList(program)
    THEN [program EXCEPT !.children = collapse_node_list(@, kind)]
    ELSE program

\* collapse_next without the flush in front of a node that is not a Next:
\* the run stays open across that node and is pushed behind the last one.
RECURSIVE collapse_next_across(_)
RECURSIVE CollapseAcross(_, _, _, _, _, _, _)
CollapseAcross(nodes, i, new_nodes, has, incr, cl, cc) ==
    IF i > Len(nodes)
    THEN IF has THEN Append(new_nodes, Leaf("Next", incr, cl, cc))
         ELSE new_nodes
    ELSE IF nodes[i].node_type = "Next"
    THEN IF has
         THEN CollapseAcross(nodes, i + 1, new_nodes, TRUE,
                             incr + nodes[i].amount, cl, cc)
         ELSE CollapseAcross(nodes, i + 1, new_nodes, TRUE,
                             nodes[i].amount, nodes[i].line, nodes[i].char)
    ELSE CollapseAcross(nodes, i + 1,
                        Append(new_nodes, collapse_next_across(nodes[i])),
                        has, incr, cl, cc)

collapse_next_across(program) ==
    IF IsList(program)
    THEN [program EXCEPT !.children =
            CollapseAcross(@, 1, <<>>, FALSE, 0, 0, 0)]
    ELSE program

collapse_next(program) == collapse_kind(program, "Next")

\* The three passes whose files are not part of the sources at hand: the
\* same run-length merging as collapse_next, for their own node kind.
collapse_increments(program) == collapse_kind(program, "Increment")

collapse_decrements(program) == collapse_kind(program, "Decrement")

collapse_previous(program) == collapse_kind(program, "Previous")

RECURSIVE collapse_set_zero(_)

IsZeroingLoop(n) ==
    /\ Len(n.children) = 1
    /\ n.children[1].node_type = "Decrement"
    /\ n.children[1].amount = 1

\* The body of the for loop of collapse_nodes, for one node.
CollapseSetZeroNode(n) ==
    IF n.node_type = "Loop"
    THEN IF Len(n.children) = 1
         THEN IF IsZeroingLoop(n)
              THEN Leaf("SetCell", 0, n.line, n.char)
              ELSE n
         ELSE collapse_set_zero(n)
    ELSE collapse_set_zero(n)

collapse_nodes(nodes) ==
    [i \in 1..Len(nodes) |-> CollapseSetZeroNode(nodes[i])]

collapse_set_zero(n) ==
    IF IsList(n)
    THEN [n EXCEPT !.children = collapse_nodes(@)]
    ELSE n

\* The pipeline without its last with_pass call.
PassesWithoutSetZero ==
    << "remove_comment_loop", "collapse_increments", "collapse_decrements",
       "collapse_next", "collapse_previous" >>

\* The pipeline with remove_comment_loop as its last pass.
PassesCommentLoopLast ==
    << "collapse_increments", "collapse_decrements", "collapse_next",
       "collapse_previous", "collapse_set_zero", "remove_comment_loop" >>

\* Optimizer::with_pass order of apply_default_optimizations.
DefaultPasses ==
    << "remove_comment_loop", "collapse_increments", "collapse_decrements",
       "collapse_next", "collapse_previous", "collapse_set_zero" >>

RunPass(pass, program) ==
    CASE pass = "remove_comment_loop" -> remove_comment_loop(program)
      [] pass = "collapse_increments" -> collapse_increments(program)
      [] pass = "collapse_decrements" -> collapse_decrements(program)
      [] pass = "collapse_next" -> collapse_next(program)
      [] pass = "collapse_previous" -> collapse_previous(program)
      [] pass = "collapse_set_zero" -> collapse_set_zero(program)

\* Optimizer::apply: every pass in order, each on the result of the last.
RECURSIVE ApplyFrom(_, _, _)
ApplyFrom(passes, i, program) ==
    IF i > Len(passes) THEN program
    ELSE ApplyFrom(passes, i + 1, RunPass(passes[i], program))

apply(passes, program) == ApplyFrom(passes, 1, program)

apply_default_optimizations(program) == apply(DefaultPasses, program)

\* ------------------------------------------------------------------ state

VARIABLES
    source,           \* main: the text read from the input file
    tokens,           \* main: lex(&source)
    phase,            \* main's position: "read", "lexed", "parsed",
                      \*   "failed" (parse error, main returns), "optimized"
    parsed,           \* the Result of parse(&tokens)
    node,             \* the tree after apply_default_optimizations
    overflow_checks,  \* the build checks integer overflow (cargo's dev
                      \*   profile) or wraps (release profile)
    stdin,            \* the bytes the input source delivers before its end
    byte_source,      \* the ByteSource the interpreter reads: "StdInSource"
                      \*   (main's), or "Bytes", one that reports its end
    ctx,              \* the interpreter's Context and I/O doubles, one per
                      \*   run: "raw" (--disable-opt) and "opt"
    gen               \* the state of the generated program run on `node`

vars == << source, tokens, phase, parsed, node, overflow_checks, stdin,
           byte_source, ctx, gen >>

ByteSources == {"StdInSource", "Bytes"}

\* Byte values offered as input.
InputBytes == {0, 1, 255}

\* ------------------------------------------------------------------ tapes

EmptyCells == [i \in {} |-> 0]

CellAt(cells, i) == IF i \in DOMAIN cells THEN cells[i] ELSE 0

Store(cells, i, v) ==
    [j \in (IF v = 0 THEN DOMAIN cells \ {i} ELSE DOMAIN cells \cup {i}) |->
        IF j = i THEN v ELSE cells[j]]

\* u8::wrapping_add / wrapping_sub.
wrapping_add(cell, v) == (cell + v) % 256

wrapping_sub(cell, v) == (cell - v) % 256

\* The amount reduced with the modulus 255.
AmountMod255(amount) == amount % 255

\* (amount % 256) as u8
AmountAsU8(amount) == amount % 256

\* ------------------------------------------------------------ interpreter

InterpRuns == {"raw", "opt"}

\* The tree main hands to interpret: the parse result with --disable-opt,
\* the optimized tree without.
TreeOf(r) == IF r = "raw" THEN parsed.node ELSE node

Frame(nodes, is_loop) == [nodes |-> nodes, pos |-> 1, is_loop |-> is_loop]

IdleContext ==
    [status |-> "idle", memory |-> [len |-> 0, cells |-> EmptyCells],
     p |-> 0, stack |-> <<>>, out |-> <<>>, src |-> <<>>]

\* interpret: a fresh Context, then interpret_node on the Program node.
NewContext(program, input) ==
    [status |-> "running", memory |-> [len |-> 0, cells |-> EmptyCells],
     p |-> 0, stack |-> << Frame(program.children, FALSE) >>,
     out |-> <<>>, src |-> input]

Top(c) == c.stack[Len(c.stack)]

AtEnd(c) == Top(c).pos > Len(Top(c).nodes)

Cur(c) == Top(c).nodes[Top(c).pos]

\* The for loop over the children moves on to the next child.
Advance(c) ==
    [c EXCEPT !.stack[Len(c.stack)].pos = @ + 1]

\* expand_memory. With the index wrapped below zero (2^64 - k) the Vec
\* cannot grow that far: the allocation fails and the process dies.
expand_memory(c) ==
    IF c.p < 0 THEN [c EXCEPT !.status = "oom"]
    ELSE IF c.memory.len <= c.p THEN [c EXCEPT !.memory.len = c.p + 1]
    ELSE c

SetCur(c, v) == [c EXCEPT !.memory.cells = Store(@, c.p, v)]

CurCell(c) == CellAt(c.memory.cells, c.p)

\* Next growing the tape to the new index as it moves.
interpret_next_grows(c, amount) ==
    IF c.p < 0 /\ c.p + amount >= 0 /\ overflow_checks
    THEN [c EXCEPT !.status = "panic"]
    ELSE Advance(expand_memory([c EXCEPT !.p = c.p + amount]))

\* NodeType::Next: self.p += amount.
interpret_next(c, amount) ==
    IF c.p < 0 /\ c.p + amount >= 0 /\ overflow_checks
    THEN [c EXCEPT !.status = "panic"]
    ELSE Advance([c EXCEPT !.p = c.p + amount])

\* NodeType::Previous.
interpret_previous(c, amount) ==
    IF c.p = 0 /\ amount # 0
    THEN [c EXCEPT !.status = "PointerUnderflow"]
    ELSE IF c.p >= 0 /\ amount > c.p /\ overflow_checks
    THEN [c EXCEPT !.status = "panic"]
    ELSE Advance([c EXCEPT !.p = c.p - amount])

\* NodeType::Increment.
interpret_increment(c, amount) ==
    LET e == expand_memory(c)
    IN IF e.status # "running" THEN e
       ELSE Advance(SetCur(e, wrapping_add(CurCell(e), AmountAsU8(amount))))

\* NodeType::Decrement.
interpret_decrement(c, amount) ==
    LET e == expand_memory(c)
    IN IF e.status # "running" THEN e
       ELSE Advance(SetCur(e, wrapping_sub(CurCell(e), AmountAsU8(amount))))

\* NodeType::Output: out.write(val).
interpret_output(c) ==
    LET e == expand_memory(c)
    IN IF e.status # "running" THEN e
       ELSE Advance([e EXCEPT !.out = Append(@, CurCell(e))])

\* ByteSource::read of a source that delivers the bytes of src and then
\* reports the end of the stream: Some(byte) or None.
BytesRead(src) ==
    IF src = <<>> THEN [some |-> FALSE, val |-> 0, rest |-> src]
    ELSE [some |-> TRUE, val |-> Head(src), rest |-> Tail(src)]

\* StdInSource::read: buf = [0]; stdin's read fills buf[0] and answers
\* Ok(1), or answers Ok(0) at the end of the stream and leaves buf alone;
\* Ok(_size) => Some(buf[0]) either way.
StdInSourceRead(src) ==
    LET buf == IF src = <<>> THEN 0 ELSE Head(src)
    IN [some |-> TRUE, val |-> buf,
        rest |-> IF src = <<>> THEN src ELSE Tail(src)]

\* src.read() of the source in use.
ByteSourceRead(src) ==
    IF byte_source = "StdInSource" THEN StdInSourceRead(src)
    ELSE BytesRead(src)

\* NodeType::Input.
interpret_input(c) ==
    LET e == expand_memory(c)
        r == ByteSourceRead(e.src)
    IN IF e.status # "running" THEN e
       ELSE IF r.some
       THEN Advance([SetCur(e, r.val) EXCEPT !.src = r.rest])
       ELSE Advance(e)

\* NodeType::SetCell.
interpret_set_cell(c, val) ==
    LET e == expand_memory(c)
    IN IF e.status # "running" THEN e
       ELSE Advance(SetCur(e, val % 256))

\* The loop test leaving the loop one decrement early.
interpret_loop_test_below_two(c) ==
    LET e == expand_memory(c)
    IN IF e.status # "running" THEN e
       ELSE IF CurCell(e) < 2 THEN Advance(e)
       ELSE [e EXCEPT !.stack = Append(@, Frame(Cur(c).children, TRUE))]

\* NodeType::Loop, the head of `loop`: expand, test, break or enter the body.
interpret_loop_test(c) ==
    LET e == expand_memory(c)
    IN IF e.status # "running" THEN e
       ELSE IF CurCell(e) = 0 THEN Advance(e)
       ELSE [e EXCEPT !.stack = Append(@, Frame(Cur(c).children, TRUE))]

\* The body is done and the loop is left without a new test.
interpret_loop_leave(c) ==
    Advance([c EXCEPT !.stack = SubSeq(@, 1, Len(@) - 1)])

\* NodeType::Loop, the for loop over the body is done: back to the test.
interpret_loop_back(c) ==
    [c EXCEPT !.stack = SubSeq(@, 1, Len(@) - 1)]

\* NodeType::Program, the for loop is done: Ok(()).
interpret_program_end(c) == [c EXCEPT !.status = "Ok"]

RECURSIVE Reach(_)
RECURSIVE ReachList(_, _)
ReachList(nodes, i) ==
    IF i > Len(nodes) THEN 0 ELSE Reach(nodes[i]) + ReachList(nodes, i + 1)

\* The index a straight-line execution of the tree can reach.
Reach(n) ==
    IF n.node_type = "Next" THEN n.amount ELSE ReachList(n.children, 1)

\* A run is followed while its index and its output are within the bounds.
InBounds(p, out, tree) ==
    /\ p <= Reach(tree) + MaxIndex
    /\ Len(out) <= MaxOut

Running(r) ==
    /\ phase = "optimized"
    /\ ctx[r].status = "running"
    /\ InBounds(ctx[r].p, ctx[r].out, TreeOf(r))

\* A run that takes no further step.
Halted(r) == phase = "optimized" /\ ctx[r].status # "idle" /\ ~Running(r)

\* The runs take place one after the other: raw, opt, generated program.
MayRun(r) == r = "opt" => (ctx["raw"].status = "skipped" \/ Halted("raw"))

AtNode(r, t) ==
    /\ Running(r) /\ MayRun(r)
    /\ ~AtEnd(ctx[r])
    /\ Cur(ctx[r]).node_type = t

Interpret(r) ==
    /\ phase = "optimized"
    /\ ctx[r].status = "idle"
    /\ MayRun(r)
    /\ ctx' = [ctx EXCEPT ![r] = NewContext(TreeOf(r), stdin)]
    /\ UNCHANGED << source, tokens, phase, parsed, node, overflow_checks,
                    byte_source, stdin, gen >>

Step(r, c) ==
    /\ ctx' = [ctx EXCEPT ![r] = c]
    /\ UNCHANGED << source, tokens, phase, parsed, node, overflow_checks,
                    byte_source, stdin, gen >>

InterpretNext(r) ==
    AtNode(r, "Next") /\ Step(r, interpret_next(ctx[r], Cur(ctx[r]).amount))

InterpretPrevious(r) ==
    /\ AtNode(r, "Previous")
    /\ Step(r, interpret_previous(ctx[r], Cur(ctx[r]).amount))

InterpretIncrement(r) ==
    /\ AtNode(r, "Increment")
    /\ Step(r, interpret_increment(ctx[r], Cur(ctx[r]).amount))

InterpretDecrement(r) ==
    /\ AtNode(r, "Decrement")
    /\ Step(r, interpret_decrement(ctx[r], Cur(ctx[r]).amount))

InterpretOutput(r) ==
    AtNode(r, "Output") /\ Step(r, interpret_output(ctx[r]))

InterpretInput(r) ==
    AtNode(r, "Input") /\ Step(r, interpret_input(ctx[r]))

InterpretSetCell(r) ==
    /\ AtNode(r, "SetCell")
    /\ Step(r, interpret_set_cell(ctx[r], Cur(ctx[r]).amount))

InterpretLoopTest(r) ==
    AtNode(r, "Loop") /\ Step(r, interpret_loop_test(ctx[r]))

InterpretLoopBack(r) ==
    /\ Running(r) /\ MayRun(r)
    /\ AtEnd(ctx[r]) /\ Top(ctx[r]).is_loop
    /\ Step(r, interpret_loop_back(ctx[r]))

InterpretProgramEnd(r) ==
    /\ Running(r) /\ MayRun(r)
    /\ AtEnd(ctx[r]) /\ ~Top(ctx[r]).is_loop
    /\ Step(r, interpret_program_end(ctx[r]))

InterpretStep(r) ==
    \/ InterpretNext(r)
    \/ InterpretPrevious(r)
    \/ InterpretIncrement(r)
    \/ InterpretDecrement(r)
    \/ InterpretOutput(r)
    \/ InterpretInput(r)
    \/ InterpretSetCell(r)
    \/ InterpretLoopTest(r)
    \/ InterpretLoopBack(r)
    \/ InterpretProgramEnd(r)

\* ------------------------------------------------- the generated program

\* The heap of the generated process: the buffers malloc has returned, in
\* order; a pointer is a position in it, 0 the null pointer. frees counts
\* the calls of free on the buffer.
Buffer(size) ==
    [size |-> size, cells |-> EmptyCells, live |-> TRUE, frees |-> 0]

malloc(heap, size) == Append(heap, Buffer(size))

free(heap, ptr) == [heap EXCEPT ![ptr].live = FALSE, ![ptr].frees = @ + 1]

\* memset(ptr, 0, n) followed by memcpy(ptr, from, n) of the first n cells.
memset_zero(heap, ptr) == [heap EXCEPT ![ptr].cells = EmptyCells]

memcpy(heap, to, from, n) ==
    [heap EXCEPT ![to].cells =
        [j \in DOMAIN @ \cup {k \in DOMAIN heap[from].cells : k < n} |->
            IF j \in DOMAIN heap[from].cells /\ j < n
            THEN heap[from].cells[j] ELSE @[j]]]

InitialLen == 30000

ResizeSlack == 100

IdleProgram ==
    [status |-> "idle", heap |-> <<>>, array |-> 0, len |-> 0, index |-> 0,
     stack |-> <<>>, out |-> <<>>, diag |-> <<>>, src |-> <<>>]

\* exit_program after puts(msg): the process ends with the diagnostic on
\* its standard output.
Die(g, status, msg) == [g EXCEPT !.status = status, !.diag = Append(@, msg)]

\* _start's entry block and init_variables; malloc_ok is whether malloc
\* returns a buffer.
init_variables(program, input, malloc_ok) ==
    LET g == [IdleProgram EXCEPT !.status = "running",
                                 !.len = InitialLen, !.index = 0,
                                 !.stack = << Frame(program.children, FALSE) >>,
                                 !.src = input]
    IN IF ~malloc_ok THEN Die(g, "alloc_failed", "alloc_failed")
       ELSE [g EXCEPT !.heap = memset_zero(malloc(g.heap, InitialLen),
                                           Len(g.heap) + 1),
                      !.array = Len(g.heap) + 1]

\* resize without the memcpy of the old buffer.
resize_without_copy(g, malloc_ok) ==
    IF g.index >= g.len
    THEN LET new_len == g.index + ResizeSlack
             new_arr == Len(g.heap) + 1
             h1 == malloc(g.heap, new_len)
             h2 == memset_zero(h1, new_arr)
         IN IF ~malloc_ok
            THEN [Die(g, "resize_failed", "resize_failed")
                    EXCEPT !.heap = free(g.heap, g.array)]
            ELSE [g EXCEPT !.heap = free(h2, g.array),
                           !.array = new_arr, !.len = new_len]
    ELSE g

\* resize without the free of the old buffer.
resize_keeps_old(g, malloc_ok) ==
    IF g.index >= g.len
    THEN LET new_len == g.index + ResizeSlack
             new_arr == Len(g.heap) + 1
             h1 == malloc(g.heap, new_len)
             h2 == memset_zero(h1, new_arr)
             h3 == memcpy(h2, new_arr, g.array, g.len)
         IN IF ~malloc_ok
            THEN [Die(g, "resize_failed", "resize_failed")
                    EXCEPT !.heap = free(g.heap, g.array)]
            ELSE [g EXCEPT !.heap = h3, !.array = new_arr, !.len = new_len]
    ELSE g

\* The routine resize(array, len, index).
resize(g, malloc_ok) ==
    IF g.index >= g.len
    THEN LET new_len == g.index + ResizeSlack
             new_arr == Len(g.heap) + 1
             h1 == malloc(g.heap, new_len)
             h2 == memset_zero(h1, new_arr)
             h3 == memcpy(h2, new_arr, g.array, g.len)
         IN IF ~malloc_ok
            THEN [Die(g, "resize_failed", "resize_failed")
                    EXCEPT !.heap = free(g.heap, g.array)]
            ELSE [g EXCEPT !.heap = free(h3, g.array),
                           !.array = new_arr, !.len = new_len]
    ELSE g

GenCell(g) == CellAt(g.heap[g.array].cells, g.index)

GenStore(g, v) ==
    [g EXCEPT !.heap[g.array].cells = Store(@, g.index, v)]

\* The i8 constants build_increment / build_decrement / build_set pass.
build_increment(amount) == amount % 255

build_decrement(amount) == amount % 255

build_set(value) == value % 255

\* The routine next(index, amount).
gen_next(g, amount) == Advance([g EXCEPT !.index = g.index + amount])

\* previous with the interpreter's test, index = 0, for amount > index.
gen_previous_tests_zero(g, amount) ==
    IF g.index = 0 /\ amount # 0
    THEN [Die(g, "PointerUnderflow", "index_underflow")
            EXCEPT !.heap = free(g.heap, g.array)]
    ELSE Advance([g EXCEPT !.index = g.index - amount])

\* The routine previous(array, len, index, amount).
gen_previous(g, amount) ==
    IF amount > g.index
    THEN [Die(g, "PointerUnderflow", "index_underflow")
            EXCEPT !.heap = free(g.heap, g.array)]
    ELSE Advance([g EXCEPT !.index = g.index - amount])

\* The routine increment(array, len, index, amount): i8 add.
gen_increment(g, amount_val, malloc_ok) ==
    LET r == resize(g, malloc_ok)
    IN IF r.status # "running" THEN r
       ELSE Advance(GenStore(r, (GenCell(r) + amount_val) % 256))

\* The routine decrement(array, len, index, amount): i8 sub.
gen_decrement(g, amount_val, malloc_ok) ==
    LET r == resize(g, malloc_ok)
    IN IF r.status # "running" THEN r
       ELSE Advance(GenStore(r, (GenCell(r) - amount_val) % 256))

\* build_int_cast of the i8 cell to i32 (sign extension), and the byte
\* putchar writes for an int: its value as unsigned char.
I8ToI32(cell) == IF cell >= 128 THEN cell - 256 ELSE cell

putchar(c) == c % 256

\* output loading the cell without the call of resize in front of it.
gen_output_unchecked(g, malloc_ok) ==
    Advance([g EXCEPT !.out = Append(@, putchar(I8ToI32(GenCell(g))))])

\* The routine output(array, len, index).
gen_output(g, malloc_ok) ==
    LET r == resize(g, malloc_ok)
    IN IF r.status # "running" THEN r
       ELSE Advance([r EXCEPT !.out = Append(@, putchar(I8ToI32(GenCell(r))))])

\* getchar: the next byte as an int, or EOF (-1) at the end of the stream.
getchar(src) == IF src = <<>> THEN -1 ELSE Head(src)

\* The routine input(array, len, index).
gen_input(g, malloc_ok) ==
    LET r == resize(g, malloc_ok)
        in_c == getchar(r.src)
    IN IF r.status # "running" THEN r
       ELSE IF in_c < 0 THEN Advance(r)
       ELSE Advance([GenStore(r, in_c % 256) EXCEPT !.src = Tail(@)])

\* The routine set(array, len, index, value).
gen_set(g, value_val, malloc_ok) ==
    LET r == resize(g, malloc_ok)
    IN IF r.status # "running" THEN r
       ELSE Advance(GenStore(r, value_val))

\* build_loop's loop_header block: resize, load the cell, branch.
gen_loop_header(g, malloc_ok) ==
    LET r == resize(g, malloc_ok)
    IN IF r.status # "running" THEN r
       ELSE IF GenCell(r) = 0 THEN Advance(r)
       ELSE [r EXCEPT !.stack = Append(@, Frame(Cur(g).children, TRUE))]

\* loop_body ending with a branch to loop_end instead of loop_header.
gen_loop_falls_through(g) ==
    Advance([g EXCEPT !.stack = SubSeq(@, 1, Len(@) - 1)])

\* The end of loop_body: the unconditional branch to loop_header.
gen_loop_back(g) == [g EXCEPT !.stack = SubSeq(@, 1, Len(@) - 1)]

\* free_variables and exit_program at the end of _start.
gen_epilogue(g) ==
    [g EXCEPT !.heap = free(g.heap, g.array), !.status = "Ok"]

GenRunning ==
    /\ phase = "optimized"
    /\ gen.status = "running"
    /\ InBounds(gen.index, gen.out, node)

GenHalted == phase = "optimized" /\ gen.status # "idle" /\ ~GenRunning

GenAt(t) ==
    /\ GenRunning
    /\ ~AtEnd(gen)
    /\ Cur(gen).node_type = t

GenStep(g) ==
    /\ gen' = g
    /\ UNCHANGED << source, tokens, phase, parsed, node, overflow_checks,
                    byte_source, stdin, ctx >>

GenStart ==
    /\ phase = "optimized"
    /\ gen.status = "idle"
    /\ Halted("opt")
    /\ \E malloc_ok \in BOOLEAN :
          GenStep(init_variables(node, stdin, malloc_ok))

GenNext == GenAt("Next") /\ GenStep(gen_next(gen, Cur(gen).amount))

GenPrevious ==
    GenAt("Previous") /\ GenStep(gen_previous(gen, Cur(gen).amount))

GenIncrement ==
    /\ GenAt("Increment")
    /\ \E malloc_ok \in BOOLEAN :
          GenStep(gen_increment(gen, build_increment(Cur(gen).amount),
                                malloc_ok))

GenDecrement ==
    /\ GenAt("Decrement")
    /\ \E malloc_ok \in BOOLEAN :
          GenStep(gen_decrement(gen, build_decrement(Cur(gen).amount),
                                malloc_ok))

GenOutput ==
    /\ GenAt("Output")
    /\ \E malloc_ok \in BOOLEAN : GenStep(gen_output(gen, malloc_ok))

GenInput ==
    /\ GenAt("Input")
    /\ \E malloc_ok \in BOOLEAN : GenStep(gen_input(gen, malloc_ok))

GenSet ==
    /\ GenAt("SetCell")
    /\ \E malloc_ok \in BOOLEAN :
          GenStep(gen_set(gen, build_set(Cur(gen).amount), malloc_ok))

GenLoopHeader ==
    /\ GenAt("Loop")
    /\ \E malloc_ok \in BOOLEAN : GenStep(gen_loop_header(gen, malloc_ok))

GenLoopBack ==
    /\ GenRunning /\ AtEnd(gen) /\ Top(gen).is_loop
    /\ GenStep(gen_loop_back(gen))

GenEpilogue ==
    /\ GenRunning /\ AtEnd(gen) /\ ~Top(gen).is_loop
    /\ GenStep(gen_epilogue(gen))

GenProgramStep ==
    \/ GenStart
    \/ GenNext
    \/ GenPrevious
    \/ GenIncrement
    \/ GenDecrement
    \/ GenOutput
    \/ GenInput
    \/ GenSet
    \/ GenLoopHeader
    \/ GenLoopBack
    \/ GenEpilogue

\* ------------------------------------------------------------- main

Range(f) == {f[i] : i \in DOMAIN f}

Lex ==
    /\ phase = "read"
    /\ tokens' = lex(source)
    /\ phase' = "lexed"
    /\ UNCHANGED << source, parsed, node, overflow_checks, byte_source, stdin,
                    ctx, gen >>

Parse ==
    /\ phase = "lexed"
    /\ parsed' = parse(tokens)
    /\ phase' = IF parsed'.ok THEN "parsed" ELSE "failed"
    /\ UNCHANGED << source, tokens, node, overflow_checks, byte_source, stdin,
                    ctx, gen >>

Optimize ==
    /\ phase = "parsed"
    /\ node' = apply_default_optimizations(parsed.node)
    /\ phase' = "optimized"
    /\ UNCHANGED << source, tokens, parsed, overflow_checks, byte_source, stdin,
                    ctx, gen >>

NotParsed == ParseErr("", 0, 0, 0)

InitMain(texts) ==
    /\ source \in texts
    /\ tokens = <<>>
    /\ phase = "read"
    /\ parsed = NotParsed
    /\ node = NoNode
    /\ ctx = [r \in InterpRuns |-> IdleContext]
    /\ gen = IdleProgram

\* Programs of pointer moves and outputs, followed to a greater length.
MoveChars == {">", "<", "."}

\* `[this is ignored]+`: a leading loop used as a comment.
CommentLoopSource ==
    << "[", "t", "h", "i", "s", " ", "i", "s", " ", "i", "g", "n", "o", "r",
       "e", "d", "]", "+" >>

\* `++>+++++[<+>-]<.`: adds 2 and 5.
AddingSource ==
    << "+", "+", ">", "+", "+", "+", "+", "+", "[", "<", "+", ">", "-", "]",
       "<", "." >>

\* The whole program: a source text and an input, lexed, parsed, optimized,
\* interpreted without and with the optimizations, compiled and run. The
\* build's overflow behaviour is drawn for the programs that can subtract
\* from the index, an input for those that read one.
Init ==
    /\ InitMain(BoundedSeq(InstrChars, MaxSrcLen)
                \cup BoundedSeq(MoveChars, MaxMoveLen))
    /\ overflow_checks \in IF "<" \in Range(source) THEN BOOLEAN ELSE {TRUE}
    /\ stdin \in IF "," \in Range(source)
                 THEN BoundedSeq(InputBytes, MaxInput) ELSE {<<>>}
    /\ byte_source \in IF "," \in Range(source)
                       THEN ByteSources ELSE {"StdInSource"}

Next ==
    \/ Lex
    \/ Parse
    \/ Optimize
    \/ \E r \in InterpRuns : Interpret(r) \/ InterpretStep(r)
    \/ GenProgramStep

Spec == Init /\ [][Next]_vars

\* `+[-],.`: a zeroing loop, an input and an output.
ZeroThenEchoSource == << "+", "[", "-", "]", ",", "." >>

\* Whole programs run to their end. A run is not suspended for ever: while
\* the interpreter or the generated program has a next step, it is taken.
InitExamples ==
    /\ InitMain({AddingSource, ZeroThenEchoSource})
    /\ overflow_checks \in BOOLEAN
    /\ stdin \in BoundedSeq(InputBytes, MaxInput)
    /\ byte_source \in ByteSources

Execute ==
    \/ \E r \in InterpRuns : Interpret(r) \/ InterpretStep(r)
    \/ GenProgramStep

SpecExamples == InitExamples /\ [][Next]_vars /\ WF_vars(Execute)

\* The front end alone, on texts with line breaks.
InitParse ==
    /\ InitMain(BoundedSeq(SrcChars, MaxParseLen) \cup {CommentLoopSource})
    /\ overflow_checks = TRUE
    /\ stdin = <<>>
    /\ byte_source = "StdInSource"

NextParse == Lex \/ Parse

SpecParse == InitParse /\ [][NextParse]_vars

\* The front end and the optimizer.
NextOpt == Lex \/ Parse \/ Optimize

SpecOpt == InitParse /\ [][NextOpt]_vars

\* Optimizer::new().with_pass(remove_comment_loop).apply(&mut node): the
\* optimizer with the first pass of the pipeline alone.
OptimizeCommentLoop ==
    /\ phase = "parsed"
    /\ node' = apply(<< "remove_comment_loop" >>, parsed.node)
    /\ phase' = "optimized"
    /\ UNCHANGED << source, tokens, parsed, overflow_checks, byte_source, stdin,
                    ctx, gen >>

\* Optimizer::new().with_pass(collapse_next).apply(&mut node): the optimizer
\* with collapse_next alone.
OptimizeNext ==
    /\ phase = "parsed"
    /\ node' = apply(<< "collapse_next" >>, parsed.node)
    /\ phase' = "optimized"
    /\ UNCHANGED << source, tokens, parsed, overflow_checks, byte_source, stdin,
                    ctx, gen >>

\* Pointer moves, loops and an instruction that is not merged.
NextChars == {">", "+", "[", "]"}

InitNext ==
    /\ InitMain(BoundedSeq(NextChars, MaxMoveLen))
    /\ overflow_checks = TRUE
    /\ stdin = <<>>
    /\ byte_source = "StdInSource"

NextNext == Lex \/ Parse \/ OptimizeNext

SpecNext == InitNext /\ [][NextNext]_vars

\* Leading loops that would write, change the cell, read or move the pointer
\* if they were entered.
CommentLoops ==
    { <<>>, << "[", ".", "]" >>, << "[", "+", "]" >>,
      << "[", "<", "]", "[", ",", ".", "]" >> }

\* Up to MaxSrcLen - 2 characters behind the leading loops.
LeadingLoopSources ==
    {loops \o rest :
        loops \in CommentLoops, rest \in BoundedSeq(InstrChars, MaxSrcLen - 2)}

InitCommentLoop ==
    /\ InitMain(LeadingLoopSources \cup {ZeroThenEchoSource})
    /\ overflow_checks \in IF "<" \in Range(source) THEN BOOLEAN ELSE {TRUE}
    /\ stdin \in IF "," \in Range(source)
                 THEN BoundedSeq(InputBytes, MaxInput) ELSE {<<>>}
    /\ byte_source \in IF "," \in Range(source)
                       THEN ByteSources ELSE {"StdInSource"}

\* The parsed tree and the tree without its comment loops are interpreted;
\* neither holds a SetCell node.
NextCommentLoop ==
    \/ Lex
    \/ Parse
    \/ OptimizeCommentLoop
    \/ \E r \in InterpRuns :
          \/ Interpret(r)
          \/ InterpretNext(r)
          \/ InterpretPrevious(r)
          \/ InterpretIncrement(r)
          \/ InterpretDecrement(r)
          \/ InterpretOutput(r)
          \/ InterpretInput(r)
          \/ InterpretLoopTest(r)
          \/ InterpretLoopBack(r)
          \/ InterpretProgramEnd(r)

SpecCommentLoop == InitCommentLoop /\ [][NextCommentLoop]_vars

\* ------------------------------------------- single instructions on a tape

\* Amounts at and around the multiples of 255 and 256.
Amounts ==
    {a \in {k * m + d : k \in 0..MaxWraps, m \in {255, 256}, d \in -1..1} :
        a >= 0}

\* Pointer amounts around the indices in use.
MoveAmounts == 0..(MaxOpIndex + 1)

N(t, a) == Leaf(t, a, 0, 0)

LoopOf(body) == Node("Loop", 0, body, 0, 0)

ProgramOf(body) == Node("Program", 0, body, 0, 0)

\* Moves to cell i and gives it the value c.
Setup(i, c) ==
    (IF i = 0 THEN <<>> ELSE << N("Next", i) >>)
    \o (IF c = 0 THEN <<>> ELSE << N("Increment", c) >>)

ArithOps ==
    {N(t, a) : t \in {"Increment", "Decrement"}, a \in Amounts}
    \cup {N("SetCell", 0)}

MoveOps == {N(t, a) : t \in {"Next", "Previous"}, a \in MoveAmounts}

IoOps == {N("Input", 0), N("Output", 0)}

\* A loop that writes its cell and decrements it: one output byte for each
\* iteration.
CountDown == LoopOf(<< N("Output", 0), N("Decrement", 1) >>)

LoopOps ==
    { LoopOf(<< N("Decrement", 1) >>),
      LoopOf(<< N("Previous", 1), N("Increment", 1) >>),
      LoopOf(<< N("Decrement", 1), N("Input", 0), N("Output", 0) >>),
      CountDown,
      LoopOf(<< N("Output", 0), LoopOf(<< N("Decrement", 1) >>) >>) }

\* Indices at and around the end of the tape the program starts with.
FarIndices == {InitialLen - 1, InitialLen, InitialLen + 1}

\* The instructions that access the cell, one of each kind.
AccessOps ==
    { N("Increment", 1), N("Decrement", 1), N("SetCell", 0), N("Input", 0),
      N("Output", 0), LoopOf(<< N("Decrement", 1) >>) }

\* What follows the access: the end of the program, or a second access one
\* slack further on.
AfterAccess ==
    { << N("Output", 0) >>,
      << N("Next", ResizeSlack), N("Increment", 1), N("Output", 0) >> }

\* Cell i is given the value c, then a cell at the end of the tape is
\* accessed.
GrowTrees ==
    {ProgramOf(Setup(i, c) \o << N("Next", far - i), op >> \o rest) :
        i \in 0..MaxOpIndex, c \in 1..MaxWraps, far \in FarIndices,
        op \in AccessOps, rest \in AfterAccess}

\* One instruction, reached at index i with c in the cell, then an Output.
OpTrees ==
    {ProgramOf(Setup(i, c) \o << op, N("Output", 0) >>) :
        i \in 0..MaxOpIndex, c \in 0..255, op \in ArithOps \cup IoOps}
    \cup {ProgramOf(Setup(i, c) \o << op, N("Output", 0) >>) :
        i \in 0..MaxOpIndex, c \in 0..MaxWraps,
        op \in MoveOps \cup LoopOps}
    \cup GrowTrees

HasKind(tree, t) == \E k \in 1..Len(tree.children) :
    tree.children[k].node_type = t

InitOps ==
    /\ source = <<>>
    /\ tokens = <<>>
    /\ phase = "optimized"
    /\ parsed = NotParsed
    /\ node \in OpTrees
    /\ overflow_checks \in
          IF HasKind(node, "Previous") \/ HasKind(node, "Loop")
          THEN BOOLEAN ELSE {TRUE}
    /\ stdin \in
          IF HasKind(node, "Input") \/ HasKind(node, "Loop")
          THEN BoundedSeq(InputBytes, MaxInput) ELSE {<<>>}
    /\ byte_source \in
          IF HasKind(node, "Input") THEN ByteSources ELSE {"StdInSource"}
    /\ ctx = [r \in InterpRuns |->
                IF r = "raw" THEN [IdleContext EXCEPT !.status = "skipped"]
                ELSE IdleContext]
    /\ gen = IdleProgram

NextOps ==
    \/ Interpret("opt")
    \/ InterpretStep("opt")
    \/ GenProgramStep

SpecOps == InitOps /\ [][NextOps]_vars

\* ------------------------------------------------- the passes on any tree

PassAmounts == {1, 255}

PassLeaves ==
    {N(t, a) : t \in {"Increment", "Decrement", "Next", "Previous"},
               a \in PassAmounts}
    \cup {N("Output", 0)}

Runs == BoundedSeq(PassLeaves, MaxRun)

ZeroingLeaves == {N("Decrement", 1), N("Output", 0)}

Padding == {<<>>, << N("Next", 1) >>}

\* Sibling lists at the top level, inside a loop that is not a leading one,
\* and inside a loop nested in such a loop.
PassTrees ==
    {ProgramOf(r) : r \in Runs}
    \cup {ProgramOf(<< x, LoopOf(r) >>) : x \in PassLeaves, r \in Runs}
    \cup {ProgramOf(<< N("Increment", 1),
                       LoopOf(pre \o << LoopOf(r) >> \o post) >>) :
             pre \in Padding, post \in Padding,
             r \in BoundedSeq(ZeroingLeaves, MaxRun)}

\* apply_default_optimizations called on a tree that may come from another
\* source than parse.
InitPasses ==
    /\ source = <<>>
    /\ tokens = <<>>
    /\ phase = "parsed"
    /\ parsed \in {ParseOk(t, 0) : t \in PassTrees}
    /\ node = NoNode
    /\ overflow_checks = TRUE
    /\ stdin = <<>>
    /\ byte_source = "StdInSource"
    /\ ctx = [r \in InterpRuns |-> IdleContext]
    /\ gen = IdleProgram

NextPasses == Optimize

SpecPasses == InitPasses /\ [][NextPasses]_vars

\* ================================================================ claims

\* ---------------------------------------------------------------- parser

CountType(toks, i, t) == Cardinality({k \in 1..i : toks[k].token_type = t})

\* Loops open after the first i tokens.
Depth(toks, i) == CountType(toks, i, "BeginLoop") - CountType(toks, i, "EndLoop")

HasExcess(toks) == \E i \in 1..Len(toks) : Depth(toks, i) < 0

Balanced(toks) == ~HasExcess(toks) /\ Depth(toks, Len(toks)) = 0

\* The first EndLoop reached while no Loop is open.
FirstExcess(toks) ==
    CHOOSE i \in 1..Len(toks) :
        Depth(toks, i) < 0 /\ \A j \in 1..(i - 1) : Depth(toks, j) >= 0

OpenAtEnd(toks) == ~HasExcess(toks) /\ Depth(toks, Len(toks)) > 0

\* A BeginLoop that no later token closes.
Unclosed(toks, j) ==
    /\ toks[j].token_type = "BeginLoop"
    /\ \A k \in j..Len(toks) : Depth(toks, k) >= Depth(toks, j)

\* The innermost loop still open when the tokens run out.
InnermostOpen(toks) ==
    CHOOSE j \in 1..Len(toks) :
        Unclosed(toks, j) /\ \A k \in (j + 1)..Len(toks) : ~Unclosed(toks, k)

RECURSIVE CountLoops(_)
RECURSIVE CountLoopsIn(_, _)
CountLoopsIn(nodes, i) ==
    IF i > Len(nodes) THEN 0
    ELSE CountLoops(nodes[i]) + CountLoopsIn(nodes, i + 1)

CountLoops(n) ==
    (IF n.node_type = "Loop" THEN 1 ELSE 0) + CountLoopsIn(n.children, 1)

ParseDone == phase \in {"parsed", "failed"}

\* C7: a token stream with balanced brackets parses, and the tree has as
\* many Loop nodes as the stream has bracket pairs.
C7_BalancedParses ==
    (ParseDone /\ Balanced(tokens)) =>
        /\ parsed.ok
        /\ phase = "parsed"
        /\ parsed.node.node_type = "Program"
        /\ CountLoops(parsed.node) = CountType(tokens, Len(tokens), "BeginLoop")

\* A parsed stream with a loop nested in a loop beside a third loop.
C7_Witness ==
    /\ phase = "parsed"
    /\ Balanced(tokens)
    /\ CountLoops(parsed.node) >= 2
    /\ \E i \in 1..Len(tokens) : Depth(tokens, i) = 2

\* C8: a stream with an EndLoop reached while no Loop is open fails with
\* UnmatchedEndLoop at the line and char of that token, without a tree.
C8_ExcessEndLoop ==
    (ParseDone /\ HasExcess(tokens)) =>
        /\ ~parsed.ok
        /\ phase = "failed"
        /\ parsed.err = "UnmatchedEndLoop"
        /\ parsed.line = tokens[FirstExcess(tokens)].line
        /\ parsed.char = tokens[FirstExcess(tokens)].char
        /\ parsed.node = NoNode

\* The excess bracket follows a closed loop on an earlier line.
C8_Witness ==
    /\ phase = "failed"
    /\ HasExcess(tokens)
    /\ FirstExcess(tokens) >= 3
    /\ tokens[FirstExcess(tokens)].line > tokens[1].line
    /\ tokens[FirstExcess(tokens)].line # tokens[FirstExcess(tokens)].char
    /\ parsed.err = "UnmatchedEndLoop"

\* C9: a stream whose tokens run out with a Loop open fails with
\* UnmatchedBeginLoop at the line and char of the opening bracket of the
\* innermost open loop, whatever follows it and however many are open.
C9_UnmatchedBeginLoop ==
    (ParseDone /\ OpenAtEnd(tokens)) =>
        /\ ~parsed.ok
        /\ phase = "failed"
        /\ parsed.err = "UnmatchedBeginLoop"
        /\ parsed.line = tokens[InnermostOpen(tokens)].line
        /\ parsed.char = tokens[InnermostOpen(tokens)].char

\* Two loops are open at the end, the inner one after a closed loop, and
\* tokens follow its opening bracket.
C9_Witness ==
    /\ phase = "failed"
    /\ OpenAtEnd(tokens)
    /\ Depth(tokens, Len(tokens)) >= 2
    /\ InnermostOpen(tokens) < Len(tokens)
    /\ parsed.err = "UnmatchedBeginLoop"
    /\ << parsed.line, parsed.char >> #
          << tokens[Len(tokens)].line, tokens[Len(tokens)].char >>

\* ------------------------------------------------------------- optimizer

\* C10: running the default pipeline on its own result changes nothing.
C10_Idempotent ==
    phase = "optimized" => apply_default_optimizations(node) = node

\* The pipeline has merged a run and rewritten a zeroing loop.
C10_Witness ==
    /\ phase = "optimized"
    /\ node # parsed.node
    /\ \E i \in 1..Len(node.children) : node.children[i].node_type = "SetCell"
    /\ \E i \in 1..Len(node.children) : node.children[i].amount = 2

\* ------------------------------------------------------------- optimizer

Mergeable == {"Increment", "Decrement", "Next", "Previous"}

\* nodes[i..j] lie in one run: one node, or nodes of one mergeable kind.
InRun(nodes, i, j) ==
    \/ i = j
    \/ /\ nodes[i].node_type \in Mergeable
       /\ \A k \in i..j : nodes[k].node_type = nodes[i].node_type

RunStarts(nodes) ==
    {i \in 1..Len(nodes) : i = 1 \/ ~InRun(nodes, i - 1, i)}

RunEnd(nodes, i) ==
    CHOOSE j \in i..Len(nodes) :
        InRun(nodes, i, j) /\ (j = Len(nodes) \/ ~InRun(nodes, i, j + 1))

RECURSIVE SumRun(_, _, _)
SumRun(nodes, i, j) ==
    IF i > j THEN 0 ELSE nodes[i].amount + SumRun(nodes, i + 1, j)

\* The k-th smallest member of a set of numbers.
Nth(S, k) == CHOOSE x \in S : Cardinality({y \in S : y <= x}) = k

\* A tree without its source positions.
RECURSIVE Shape(_)
Shape(n) ==
    [node_type |-> n.node_type, amount |-> n.amount,
     children |-> [i \in 1..Len(n.children) |-> Shape(n.children[i])]]

\* A sibling list with every maximal run replaced by one node carrying the
\* sum of the run, in every sibling list below it as well.
RECURSIVE MergedRuns(_)
MergedRuns(nodes) ==
    [k \in 1..Cardinality(RunStarts(nodes)) |->
        LET i == Nth(RunStarts(nodes), k)
        IN IF nodes[i].node_type \in Mergeable
           THEN [node_type |-> nodes[i].node_type,
                 amount |-> SumRun(nodes, i, RunEnd(nodes, i)),
                 children |-> <<>>]
           ELSE [node_type |-> nodes[i].node_type,
                 amount |-> nodes[i].amount,
                 children |-> MergedRuns(nodes[i].children)]]

\* The tree after the passes that precede collapse_set_zero.
Collapsed(program) == apply(SubSeq(DefaultPasses, 1, 5), program)

\* C11: after the collapse passes every maximal run of Increment,
\* Decrement, Next or Previous siblings is one node of that kind whose
\* count is the sum of the run's counts (no modulus), and the other nodes
\* keep their order.
C11_RunsCollapsed ==
    phase = "optimized" =>
        Shape(Collapsed(parsed.node)).children
            = MergedRuns(remove_comment_loop(parsed.node).children)

\* Increment(255), Increment(1), Increment(1) inside a loop have become
\* Increment(257).
C11_Witness ==
    /\ phase = "optimized"
    /\ Len(parsed.node.children) = 2
    /\ Shape(parsed.node).children[2] =
          Shape(LoopOf(<< N("Increment", 255), N("Increment", 1),
                          N("Increment", 1) >>))
    /\ Shape(node).children[2] = Shape(LoopOf(<< N("Increment", 257) >>))

\* A Loop whose body is exactly one Decrement(1).
IsDecrementOneLoop(n) ==
    /\ n.node_type = "Loop"
    /\ Len(n.children) = 1
    /\ n.children[1].node_type = "Decrement"
    /\ n.children[1].amount = 1

SetCellAt(n) == Leaf("SetCell", 0, n.line, n.char)

\* out is in with every Loop of exactly one Decrement(1) turned into
\* SetCell(0) at the loop's position and nothing else changed.
RECURSIVE ZeroingLoopsRewritten(_, _)
ZeroingLoopsRewritten(in, out) ==
    /\ Len(out) = Len(in)
    /\ \A i \in 1..Len(in) :
          IF IsDecrementOneLoop(in[i])
          THEN out[i] = SetCellAt(in[i])
          ELSE /\ out[i].node_type = in[i].node_type
               /\ out[i].amount = in[i].amount
               /\ out[i].line = in[i].line
               /\ out[i].char = in[i].char
               /\ ZeroingLoopsRewritten(in[i].children, out[i].children)

\* C12: collapse_set_zero replaces a Loop whose body is exactly one
\* Decrement(1) by SetCell(0) at the loop's position, and leaves every Loop
\* with another body (one Decrement(2), no child, several children) a Loop.
C12_SetZeroRule ==
    phase = "optimized" =>
        ZeroingLoopsRewritten(Collapsed(parsed.node).children, node.children)

ZeroingSource == << "[", "-", "]" >>

DoubleDecrementSource == << "[", "-", "-", "]" >>

\* The instructions that are not brackets.
PlainChars == InstrChars \ {"[", "]"}

LeadingLoops(nodes) ==
    CHOOSE k \in 0..Len(nodes) :
        /\ \A i \in 1..k : nodes[i].node_type = "Loop"
        /\ k = Len(nodes) \/ nodes[k + 1].node_type # "Loop"

WithoutLeadingLoops(program) ==
    [program EXCEPT
        !.children = SubSeq(@, LeadingLoops(@) + 1, Len(@))]

\* C14: remove_comment_loop takes the maximal prefix of Loops off the
\* children of the Program and nothing else: the remaining children, later
\* and nested loops included, stay as they are and in order, and a node
\* that is not a Program is left alone; `[this is ignored]+` ends as a
\* Program whose only child is Increment(1).
C14_LeadingLoopsRemoved ==
    /\ phase \in {"parsed", "optimized"} =>
          /\ remove_comment_loop(parsed.node) = WithoutLeadingLoops(parsed.node)
          /\ \A i \in 1..Len(parsed.node.children) :
                remove_comment_loop(parsed.node.children[i])
                    = parsed.node.children[i]
    /\ phase = "optimized" =>
          node = apply(SubSeq(DefaultPasses, 2, Len(DefaultPasses)),
                       WithoutLeadingLoops(parsed.node))
    /\ (phase = "optimized" /\ source = CommentLoopSource) =>
          node.children = << Leaf("Increment", 1, 1, 18) >>

\* `[][]+`: both leading loops are gone and the Increment is left.
C14_Witness ==
    /\ phase = "optimized"
    /\ source = << "[", "]", "[", "]", "+" >>
    /\ Len(parsed.node.children) = 3
    /\ node.children = << Leaf("Increment", 1, 1, 5) >>

\* --------------------------------------------------------------- backends

Finished(r) == ctx[r].status \in {"Ok", "PointerUnderflow", "panic", "oom"}

\* The generated program has ended on its own account, not for want of
\* memory.
GenFinished == gen.status \in {"Ok", "PointerUnderflow"}

\* The node a run has just executed in its innermost sibling list.
Prev(c) == Top(c).nodes[Top(c).pos - 1]

OtherCellsKept(cells, cells2, i) ==
    \A j \in (DOMAIN cells \cup DOMAIN cells2) \ {i} :
        CellAt(cells2, j) = CellAt(cells, j)

\* C1: the interpreter and the generated program, run on the same tree and
\* input, end with the same output bytes and the same outcome.
C1_BackendsAgree ==
    (phase = "optimized" /\ Finished("opt") /\ GenFinished) =>
        /\ gen.out = ctx["opt"].out
        /\ gen.status = ctx["opt"].status

NoLeadingLoop(program) ==
    Len(program.children) = 0 \/ program.children[1].node_type # "Loop"

\* C2: for a program without leading top-level loops the interpreter writes
\* the same bytes for the parsed tree and for the optimized tree.
C2_OptimizedSameOutput ==
    (/\ phase = "optimized" /\ parsed.ok /\ NoLeadingLoop(parsed.node)
     /\ Finished("raw") /\ Finished("opt")) =>
        ctx["opt"].out = ctx["raw"].out

\* C3: Previous(n) with n above the index returns PointerUnderflow and
\* leaves the index alone; otherwise the index becomes index - n.
C3_PreviousChecked ==
    [][\A r \in InterpRuns :
        (AtNode(r, "Previous") /\ ctx[r].p >= 0 /\ ctx'[r] # ctx[r]) =>
            IF Cur(ctx[r]).amount > ctx[r].p
            THEN ctx'[r].status = "PointerUnderflow" /\ ctx'[r].p = ctx[r].p
            ELSE /\ ctx'[r].status = "running"
                 /\ ctx'[r].p = ctx[r].p - Cur(ctx[r]).amount]_vars

\* What Increment/Decrement by a must make of the machine of context c.
ArithStep(c, d, v) ==
    /\ d.status = "running"
    /\ d.p = c.p
    /\ CurCell(d) = v
    /\ OtherCellsKept(c.memory.cells, d.memory.cells, c.p)
    /\ d.out = c.out
    /\ d.src = c.src

\* C4: the interpreter's Increment(a) makes the current cell (c + a) mod
\* 256 and Decrement(a) makes it (c - a) mod 256, for every a >= 0; no
\* other cell changes and the index does not.
C4_InterpreterWraps256 ==
    [][LET c == ctx["opt"]
           d == ctx'["opt"]
       IN /\ (AtNode("opt", "Increment") /\ c.p >= 0 /\ d # c) =>
                ArithStep(c, d, (CurCell(c) + Cur(c).amount) % 256)
          /\ (AtNode("opt", "Decrement") /\ c.p >= 0 /\ d # c) =>
                ArithStep(c, d, (CurCell(c) - Cur(c).amount) % 256)]_vars

\* Cell 2 held 200 and a Decrement(511) has made it 201.
C4_Witness ==
    LET c == ctx["opt"]
    IN /\ c.status = "running"
       /\ Len(c.stack) = 1
       /\ Top(c).pos = 4
       /\ Top(c).nodes[2] = N("Increment", 200)
       /\ Prev(c) = N("Decrement", 511)
       /\ c.p = 2
       /\ CurCell(c) = 201

\* C5: the generated program's increment/decrement changes the cell to
\* (c + a) mod 256 resp. (c - a) mod 256 for every amount a of the tree.
C5_GeneratedWraps256 ==
    [][/\ (GenAt("Increment") /\ gen' # gen /\ gen'.status = "running") =>
             GenCell(gen') = (GenCell(gen) + Cur(gen).amount) % 256
       /\ (GenAt("Decrement") /\ gen' # gen /\ gen'.status = "running") =>
             GenCell(gen') = (GenCell(gen) - Cur(gen).amount) % 256]_vars

\* The program `,.`.
IsCommaDot(program) ==
    /\ Len(program.children) = 2
    /\ program.children[1].node_type = "Input"
    /\ program.children[2].node_type = "Output"

\* C6: in both backends an Input at the end of the input stream leaves the
\* current cell, every other cell and the index as they were and is no
\* error; `,.` on an empty input writes the single byte 0.
C6_InputAtEnd ==
    /\ [][LET c == ctx["opt"]
              d == ctx'["opt"]
          IN /\ (AtNode("opt", "Input") /\ c.src = <<>> /\ c.p >= 0 /\ d # c) =>
                   /\ d.status = "running"
                   /\ d.p = c.p
                   /\ d.memory.cells = c.memory.cells
                   /\ d.out = c.out
             /\ (GenAt("Input") /\ gen.src = <<>> /\ gen' # gen) =>
                   /\ gen'.status = "running"
                   /\ gen'.index = gen.index
                   /\ gen'.heap[gen'.array].cells = gen.heap[gen.array].cells
                   /\ gen'.out = gen.out]_vars
    /\ [](IsCommaDot(node) /\ stdin = <<>> =>
            /\ ctx["opt"].status \in {"idle", "running", "Ok"}
            /\ ctx["opt"].status = "Ok" => ctx["opt"].out = << 0 >>
            /\ gen.status = "Ok" => gen.out = << 0 >>)

\* C15: interpreting `++>+++++[<+>-]<.`, optimized or not, ends with Ok
\* and has written exactly one byte, 7.
C15_AddsToSeven ==
    /\ [](source = AddingSource =>
            \A r \in InterpRuns :
               /\ ctx[r].status \in {"idle", "running", "Ok"}
               /\ ctx[r].status = "Ok" => ctx[r].out = << 7 >>)
    /\ (source = AddingSource /\ phase = "optimized") ~>
            (\A r \in InterpRuns : ctx[r].status = "Ok")

\* Both runs of the adding program have ended and written 7.
C15_Witness ==
    /\ source = AddingSource
    /\ \A r \in InterpRuns : ctx[r].status = "Ok" /\ ctx[r].out = << 7 >>
    /\ node.children[3] = Leaf("Increment", 5, 1, 4)

\* C16: a Previous that would take the index below zero makes the
\* interpreter return PointerUnderflow, and from then on the run does
\* nothing: no byte is written, no input read, no loop iteration taken;
\* `<` on a fresh machine reports PointerUnderflow without any output.
C16_UnderflowStops ==
    /\ [][\A r \in InterpRuns :
            /\ (/\ AtNode(r, "Previous") /\ ctx'[r] # ctx[r]
                /\ ctx[r].p >= 0 /\ Cur(ctx[r]).amount > ctx[r].p) =>
                  ctx'[r].status = "PointerUnderflow"
            /\ ctx[r].status = "PointerUnderflow" => ctx'[r] = ctx[r]]_vars
    /\ []((/\ Len(node.children) > 0
           /\ node.children[1] = N("Previous", 1)
           /\ Finished("opt")) =>
             /\ ctx["opt"].status = "PointerUnderflow"
             /\ ctx["opt"].out = <<>>)

\* C17: the generated previous aborts exactly when the amount exceeds the
\* index: it then prints the underflow diagnostic, frees the tape and ends
\* the process with the index as it was; otherwise the index becomes
\* index - amount and nothing else changes.
C17_GeneratedPrevious ==
    [][(GenAt("Previous") /\ gen' # gen) =>
          IF Cur(gen).amount > gen.index
          THEN /\ gen'.status = "PointerUnderflow"
               /\ gen'.diag = Append(gen.diag, "index_underflow")
               /\ ~gen'.heap[gen.array].live
               /\ gen'.index = gen.index
               /\ gen'.out = gen.out
          ELSE /\ gen'.status = "running"
               /\ gen'.index = gen.index - Cur(gen).amount
               /\ gen'.heap = gen.heap
               /\ gen'.array = gen.array
               /\ gen'.len = gen.len
               /\ gen'.out = gen.out
               /\ gen'.src = gen.src
               /\ gen'.diag = gen.diag]_vars

\* previous(2) at index 1 has ended the process.
C17_Witness ==
    /\ gen.status = "PointerUnderflow"
    /\ gen.index = 1
    /\ Cur(gen) = N("Previous", 2)
    /\ gen.diag = << "index_underflow" >>
    /\ ~gen.heap[gen.array].live


\* The instructions whose generated routine calls resize before it
\* touches the cell.
ResizingKinds ==
    {"Increment", "Decrement", "SetCell", "Input", "Output", "Loop"}

GenResizes ==
    /\ \E t \in ResizingKinds : GenAt(t)
    /\ gen' # gen

\* The cells a buffer holds a value for: those stored to; every other cell
\* of a zero-filled buffer is 0.
Stored(h, ptr) == DOMAIN h[ptr].cells

\* C18: a generated routine that calls resize with index < len leaves array,
\* len and the heap's buffers as they are; with index >= len, and malloc
\* returning a buffer, array is afterwards a fresh live buffer of
\* len = index + 100 > index cells, the old buffer is released, every cell
\* 0..old_len-1 has the value it had and every cell from old_len on is 0
\* (the cell at index excepted, which the calling routine may then store to).
C18_Resize ==
    [][GenResizes =>
          IF gen.index < gen.len
          THEN /\ gen'.array = gen.array
               /\ gen'.len = gen.len
               /\ Len(gen'.heap) = Len(gen.heap)
               /\ gen'.heap[gen.array].live
               /\ \A j \in Stored(gen.heap, gen.array)
                            \cup Stored(gen'.heap, gen.array) :
                     j # gen.index =>
                        CellAt(gen'.heap[gen.array].cells, j)
                           = CellAt(gen.heap[gen.array].cells, j)
          ELSE gen'.status = "running" =>
               /\ gen'.len = gen.index + ResizeSlack
               /\ gen'.len > gen.index
               /\ gen'.array # gen.array
               /\ Len(gen'.heap) = Len(gen.heap) + 1
               /\ gen'.heap[gen'.array].live
               /\ gen'.heap[gen'.array].size = gen'.len
               /\ ~gen'.heap[gen.array].live
               /\ \A j \in Stored(gen.heap, gen.array)
                            \cup Stored(gen'.heap, gen'.array) :
                     /\ (0 <= j /\ j < gen.len) =>
                           CellAt(gen'.heap[gen'.array].cells, j)
                              = CellAt(gen.heap[gen.array].cells, j)
                     /\ (j >= gen.len /\ j # gen.index) =>
                           CellAt(gen'.heap[gen'.array].cells, j) = 0]_vars

\* The tape has grown twice, from 30000 to 30100 to 30200 cells, and the
\* nonzero cell written before the first growth is in the third buffer.
C18_Witness ==
    /\ gen.status = "running"
    /\ Len(gen.heap) = 3
    /\ gen.array = 3
    /\ gen.len = InitialLen + 2 * ResizeSlack
    /\ gen.index = InitialLen + ResizeSlack
    /\ ~gen.heap[1].live /\ ~gen.heap[2].live
    /\ CellAt(gen.heap[3].cells, 1) = 2
    /\ CellAt(gen.heap[3].cells, InitialLen) = 1


\* The test of a loop has taken the machine from c to d with `cell` in the
\* current cell: a zero cell moves on past the loop without entering the
\* body, any other value enters the body at its first child.
LoopTested(c, d, cell) ==
    d.status = "running" =>
        IF cell = 0
        THEN /\ Len(d.stack) = Len(c.stack)
             /\ Top(d).nodes = Top(c).nodes
             /\ Top(d).pos = Top(c).pos + 1
        ELSE /\ d.stack = Append(c.stack, Frame(Cur(c).children, TRUE))
             /\ Top(d).pos = 1

\* The body of a loop is done and the machine has gone from c to d: it is
\* at the Loop node again, whose test is the next thing it does.
LoopedBack(c, d) ==
    /\ d.status = "running"
    /\ d.stack = SubSeq(c.stack, 1, Len(c.stack) - 1)
    /\ ~AtEnd(d)
    /\ Cur(d).node_type = "Loop"
    /\ Cur(d).children = Top(c).nodes

CountDownFrom(n) == [k \in 1..n |-> n + 1 - k]

\* C19: in the interpreter and in the generated program the step at a Loop
\* tests the current cell, before the first iteration as before any other: a
\* zero cell skips the body, another value enters it; the step after the
\* last child of the body returns to that test; and a loop that writes and
\* decrements a cell holding c makes c iterations in both, writing
\* c, c-1, .., 1.
C19_TestAtTop ==
    /\ [][/\ \A r \in InterpRuns :
               /\ (AtNode(r, "Loop") /\ ctx'[r] # ctx[r]) =>
                     /\ LoopTested(ctx[r], ctx'[r], CurCell(ctx[r]))
                     /\ ctx'[r].out = ctx[r].out
                     /\ ctx'[r].memory.cells = ctx[r].memory.cells
               /\ (Running(r) /\ AtEnd(ctx[r]) /\ Top(ctx[r]).is_loop
                      /\ ctx'[r] # ctx[r]) =>
                     LoopedBack(ctx[r], ctx'[r])
          /\ (GenAt("Loop") /\ gen' # gen) =>
                /\ LoopTested(gen, gen', GenCell(gen))
                /\ gen'.out = gen.out
          /\ (GenRunning /\ AtEnd(gen) /\ Top(gen).is_loop /\ gen' # gen) =>
                /\ LoopedBack(gen, gen')
                /\ gen'.heap = gen.heap /\ gen'.index = gen.index]_vars
    /\ [](\A i \in 0..MaxOpIndex, c \in 0..MaxWraps :
            (/\ node = ProgramOf(Setup(i, c) \o << CountDown, N("Output", 0) >>)
             /\ ctx["opt"].status = "Ok" /\ gen.status = "Ok") =>
               /\ ctx["opt"].out = CountDownFrom(c) \o << 0 >>
               /\ gen.out = ctx["opt"].out)

\* Both backends have run the count-down loop from 2: two iterations each.
C19_Witness ==
    /\ node = ProgramOf(Setup(1, 2) \o << CountDown, N("Output", 0) >>)
    /\ ctx["opt"].status = "Ok" /\ gen.status = "Ok"
    /\ ctx["opt"].out = << 2, 1, 0 >>
    /\ gen.out = << 2, 1, 0 >>


\* The Loops of exactly one Decrement(1) in a list of siblings and below it.
RECURSIVE CountZeroingLoops(_)
CountZeroingLoops(nodes) ==
    IF nodes = <<>> THEN 0
    ELSE (IF IsDecrementOneLoop(Head(nodes)) THEN 1 ELSE 0)
         + CountZeroingLoops(Head(nodes).children)
         + CountZeroingLoops(Tail(nodes))

\* C20: after the optimizer no Loop whose body is exactly one Decrement(1)
\* is left at any depth of the tree, whether the loop it is nested in has
\* one child or several.
C20_RewritesNested ==
    phase = "optimized" => CountZeroingLoops(node.children) = 0

\* ------------------------------------------------- claims: equivalences

\* C21: the tree before remove_comment_loop and the tree after it, each
\* interpreted to its end on the same input, have written the same bytes and
\* ended with the same result.
C21_CommentLoopsPreserved ==
    (Finished("raw") /\ Finished("opt")) =>
        /\ ctx["opt"].out = ctx["raw"].out
        /\ ctx["opt"].status = ctx["raw"].status

\* `[.]+.`: the leading loop, which would write a byte, is gone from the
\* second tree, and both runs have written the one byte 1.
C21_Witness ==
    /\ source = << "[", ".", "]", "+", "." >>
    /\ Len(parsed.node.children) = 3
    /\ Len(node.children) = 2
    /\ ctx["raw"].status = "Ok" /\ ctx["opt"].status = "Ok"
    /\ ctx["raw"].out = << 1 >> /\ ctx["opt"].out = << 1 >>

\* --------------------------------------------- a zeroing loop on any cell

ZeroingLoop == LoopOf(<< N("Decrement", 1) >>)

\* Cell i holds c and its right neighbour 7; the index is i.
ZeroingSetup(i, c) ==
    Setup(i, c) \o << N("Next", 1), N("Increment", 7), N("Previous", 1) >>

ZeroingTree(i, c, op) == ProgramOf(ZeroingSetup(i, c) \o << op >>)

\* The first cell of the tape and one further on.
ZeroingIndices == {0, MaxOpIndex}

ZeroingTrees ==
    {ZeroingTree(i, c, op) :
        i \in ZeroingIndices, c \in 0..255,
        op \in {ZeroingLoop, N("SetCell", 0)}}

\* An input with a byte left to read.
ZeroingInput == << 1 >>

InitZeroing ==
    /\ source = <<>>
    /\ tokens = <<>>
    /\ phase = "optimized"
    /\ parsed = NotParsed
    /\ node \in ZeroingTrees
    /\ overflow_checks = TRUE
    /\ stdin = ZeroingInput
    /\ byte_source = "StdInSource"
    /\ ctx = [r \in InterpRuns |->
                IF r = "raw" THEN [IdleContext EXCEPT !.status = "skipped"]
                ELSE IdleContext]
    /\ gen = IdleProgram

NextZeroing ==
    \/ Interpret("opt")
    \/ InterpretNext("opt")
    \/ InterpretPrevious("opt")
    \/ InterpretIncrement("opt")
    \/ InterpretDecrement("opt")
    \/ InterpretSetCell("opt")
    \/ InterpretLoopTest("opt")
    \/ InterpretLoopBack("opt")
    \/ InterpretProgramEnd("opt")

\* interpret runs to its end: while it has a next step, the step is taken.
SpecZeroing == InitZeroing /\ [][NextZeroing]_vars /\ WF_vars(NextZeroing)

\* The state of the machine: the tape, the index, the bytes written and the
\* bytes left to read, and the result.
Machine(c) ==
    [memory |-> c.memory, p |-> c.p, out |-> c.out, src |-> c.src,
     status |-> c.status]

\* The context in front of the last instruction of ZeroingTree(i, c, op).
BeforeZeroing(i, c) ==
    [NewContext(node, stdin) EXCEPT
        !.p = i,
        !.memory = [len |-> i + 2,
                    cells |-> Store(Store(EmptyCells, i + 1, 7), i, c)]]

\* C22: Loop[Decrement(1)], entered at any index with any value 0..255 in
\* the cell, comes to its end; every iteration takes the cell from a value
\* 1..255 to the value below it, so there are at most 255; and the machine
\* is then in the state SetCell(0) leaves it in from the same state: cell 0,
\* every other cell, the length of the tape and the index as they were,
\* nothing written, nothing read.
C22_ZeroingLoop ==
    /\ [](ctx["opt"].status = "Ok" =>
            \A i \in ZeroingIndices, c \in 0..255 :
                node = ZeroingTree(i, c, ZeroingLoop) =>
                    Machine(ctx["opt"]) =
                        Machine([interpret_set_cell(BeforeZeroing(i, c), 0)
                                    EXCEPT !.status = "Ok"]))
    /\ [][(AtNode("opt", "Decrement") /\ Top(ctx["opt"]).is_loop
             /\ ctx'["opt"] # ctx["opt"]) =>
               /\ CurCell(ctx["opt"]) \in 1..255
               /\ CurCell(ctx'["opt"]) = CurCell(ctx["opt"]) - 1
               /\ ctx'["opt"].out = <<>>
               /\ ctx'["opt"].src = stdin]_vars
    /\ (ctx["opt"].status = "running" ~> ctx["opt"].status = "Ok")

\* The loop has run down from 255 at index MaxOpIndex: the cell is 0, the neighbour
\* still 7, nothing was written and the input byte is still unread.
C22_Witness ==
    /\ node = ZeroingTree(MaxOpIndex, 255, ZeroingLoop)
    /\ ctx["opt"].status = "Ok"
    /\ ctx["opt"].p = MaxOpIndex
    /\ CurCell(ctx["opt"]) = 0
    /\ CellAt(ctx["opt"].memory.cells, MaxOpIndex + 1) = 7
    /\ ctx["opt"].memory.len = MaxOpIndex + 2
    /\ ctx["opt"].out = <<>>
    /\ ctx["opt"].src = << 1 >>

\* ---------------------------------------------------- claims: collapse_next

\* The Next nodes at the head of a sibling list.
RECURSIVE LeadingNexts(_)
LeadingNexts(nodes) ==
    IF nodes # <<>> /\ Head(nodes).node_type = "Next"
    THEN 1 + LeadingNexts(Tail(nodes))
    ELSE 0

\* A sibling list in which every run of adjacent Next nodes is one Next at
\* the position of the run's first node, the runs of every Loop body below
\* it likewise, and every other node is as it was.
RECURSIVE AdjacentNextsMerged(_)
AdjacentNextsMerged(nodes) ==
    IF nodes = <<>> THEN <<>>
    ELSE IF Head(nodes).node_type = "Next"
    THEN LET k == LeadingNexts(nodes)
         IN << Leaf("Next", SumRun(nodes, 1, k), Head(nodes).line,
                    Head(nodes).char) >>
            \o AdjacentNextsMerged(SubSeq(nodes, k + 1, Len(nodes)))
    ELSE << [Head(nodes) EXCEPT !.children = AdjacentNextsMerged(@)] >>
         \o AdjacentNextsMerged(Tail(nodes))

NextLoopNextSource == << ">", "[", ">", "]", ">" >>

\* C23: collapse_next turns the Next nodes that are adjacent in one sibling
\* list, of the Program or of a Loop at any depth, into one Next, and leaves
\* every other node and every Next that has no Next beside it as it is; the
\* three Next nodes of `>[>]>` stay three.
C23_SiblingRunsOnly ==
    phase = "optimized" =>
        /\ node = [parsed.node EXCEPT !.children = AdjacentNextsMerged(@)]
        /\ source = NextLoopNextSource => node = parsed.node

\* `[[>>]]`: the run two loops deep is one Next(2) at the position of its
\* first node.
C23_Witness ==
    /\ phase = "optimized"
    /\ source = << "[", "[", ">", ">", "]", "]" >>
    /\ node.children =
          << Node("Loop", 0,
                  << Node("Loop", 0, << Leaf("Next", 2, 1, 3) >>, 1, 2) >>,
                  1, 1) >>

\* ------------------------------------------------- claims: the byte source

\* C24: with StdInSource, the byte source main binds, an Input the
\* interpreter executes once standard input is exhausted is told of the end
\* of the stream and leaves the current cell with the value it had.
C24_StdInEndOfStream ==
    [][(/\ byte_source = "StdInSource"
        /\ AtNode("opt", "Input")
        /\ ctx["opt"].src = <<>>
        /\ ctx["opt"].p >= 0
        /\ ctx'["opt"] # ctx["opt"]) =>
           /\ ~ByteSourceRead(ctx["opt"].src).some
           /\ ctx'["opt"].status = "running"
           /\ CurCell(ctx'["opt"]) = CurCell(ctx["opt"])]_vars

\* ------------------------------------------- claims: the generated tape

\* C25: whenever a generated routine loads or stores a cell (the loop
\* header, increment, decrement, set, output, input, each having come back
\* from resize), the index is the one the routine was entered with and lies
\* below len, len is the size of the live buffer array points to, and every
\* cell stored lies inside that buffer.
C25_AccessInBounds ==
    [][(GenResizes /\ gen'.status = "running") =>
          /\ gen'.index = gen.index
          /\ 0 <= gen.index /\ gen.index < gen'.len
          /\ gen'.heap[gen'.array].live
          /\ gen'.heap[gen'.array].size = gen'.len
          /\ \A j \in Stored(gen'.heap, gen'.array) :
                0 <= j /\ j < gen'.len]_vars

\* A store at index 30001, one past the end of the first buffer: the tape
\* has 30101 cells.
C25_Witness ==
    /\ gen.status = "running"
    /\ gen.index = InitialLen + 1
    /\ gen.len = InitialLen + 1 + ResizeSlack
    /\ Top(gen).pos > 1
    /\ Prev(gen) = N("Increment", 1)
    /\ GenCell(gen) = 1
    /\ gen.heap[gen.array].size = gen.len

LiveBuffers(h) == {k \in 1..Len(h) : h[k].live}

\* C26: the prologue leaves one live buffer of 30000 zeroed cells, or ends
\* the program with a diagnostic when malloc fails; while the program runs
\* exactly one buffer is live and array points to it; a buffer once released
\* is neither written nor released again; and however the program ends (the
\* epilogue, a pointer underflow, a failed resize), every buffer it was
\* given has been released exactly once.
C26_OneLiveBuffer ==
    /\ [](/\ gen.status = "running" =>
                /\ LiveBuffers(gen.heap) = {gen.array}
                /\ \A k \in 1..Len(gen.heap) :
                      gen.heap[k].frees = IF k = gen.array THEN 0 ELSE 1
          /\ gen.status \in {"Ok", "PointerUnderflow", "resize_failed"} =>
                /\ Len(gen.heap) >= 1
                /\ \A k \in 1..Len(gen.heap) :
                      ~gen.heap[k].live /\ gen.heap[k].frees = 1
          /\ gen.status = "alloc_failed" =>
                gen.heap = <<>> /\ gen.diag = << "alloc_failed" >>)
    /\ [][/\ (gen.status = "idle" /\ gen'.status = "running") =>
                /\ gen'.heap = << Buffer(InitialLen) >>
                /\ gen'.array = 1 /\ gen'.len = InitialLen
          /\ \A k \in 1..Len(gen.heap) :
                ~gen.heap[k].live => gen'.heap[k] = gen.heap[k]]_vars

\* The program has ended normally after two resizes: three buffers, each
\* released once.
C26_Witness ==
    /\ gen.status = "Ok"
    /\ Len(gen.heap) = 3
    /\ \A k \in 1..3 : ~gen.heap[k].live /\ gen.heap[k].frees = 1

\* ---------------------------------------------- claims: the interpreter's tape

\* The instructions that read or write the current cell.
AccessKinds ==
    {"Loop", "Increment", "Decrement", "Output", "Input", "SetCell"}

\* C27: in the interpreter a Next succeeds, adds its count to the index and
\* leaves the tape as it is; an instruction that reads or writes the cell
\* first grows the tape to index + 1 cells if it is shorter, so that the
\* index is below the length at the access, the cells the tape had keep
\* their values and the cells it gains are 0; the length never decreases and
\* no cell at or beyond it holds a value.
C27_LazyGrowth ==
    [][LET c == ctx["opt"]
           d == ctx'["opt"]
       IN /\ (AtNode("opt", "Next") /\ d # c) =>
                /\ d.status = "running"
                /\ d.p = c.p + Cur(c).amount
                /\ d.memory = c.memory
                /\ d.out = c.out /\ d.src = c.src
          /\ ((\E t \in AccessKinds : AtNode("opt", t)) /\ d # c
                /\ d.status = "running") =>
                /\ d.p = c.p
                /\ 0 <= c.p /\ c.p < d.memory.len
                /\ d.memory.len =
                      IF c.memory.len <= c.p THEN c.p + 1 ELSE c.memory.len
                /\ OtherCellsKept(c.memory.cells, d.memory.cells, c.p)
                /\ \A j \in DOMAIN d.memory.cells :
                      j >= c.memory.len => j = c.p
          /\ ((\E t \in {"Previous"} \cup AccessKinds : AtNode("opt", t))
                /\ d # c /\ d.status # "running") =>
                d.memory = c.memory
          /\ (c.status = "running" /\ d # c) =>
                /\ d.memory.len >= c.memory.len
                /\ \A j \in DOMAIN d.memory.cells :
                      0 <= j /\ j < d.memory.len]_vars

\* Next(30000) has moved the index far beyond a tape of one cell without
\* growing it; the Increment that follows has grown it to 30001 cells.
C27_Witness ==
    /\ ctx["opt"].status = "running"
    /\ ctx["opt"].p = InitialLen
    /\ ctx["opt"].memory.len = InitialLen + 1
    /\ CellAt(ctx["opt"].memory.cells, 0) = 2
    /\ CellAt(ctx["opt"].memory.cells, InitialLen) = 1
    /\ Top(ctx["opt"]).pos > 1
    /\ Prev(ctx["opt"]) = N("Increment", 1)

\* ------------------------------------------------ claims: the pass order

\* The tokens hold `[`, `-`, `]` in a row.
HasZeroingTokens(toks) ==
    \E i \in 1..(Len(toks) - 2) :
        /\ toks[i].token_type = "BeginLoop"
        /\ toks[i + 1].token_type = "Decrement"
        /\ toks[i + 2].token_type = "EndLoop"

\* The SetCell nodes of a list of siblings and below it.
RECURSIVE CountSetCells(_)
CountSetCells(nodes) ==
    IF nodes = <<>> THEN 0
    ELSE (IF Head(nodes).node_type = "SetCell" THEN 1 ELSE 0)
         + CountSetCells(Head(nodes).children)
         + CountSetCells(Tail(nodes))

\* C28: the optimized tree is what collapse_set_zero makes of what
\* collapse_previous makes of ... what remove_comment_loop makes of the
\* parsed tree, the six passes in that order, each on the tree the one
\* before it left; a program in which no loop is written `[-]` has no
\* SetCell in its optimized tree, and a loop written `[--]` behind an
\* instruction is there as Loop[Decrement(2)].
C28_PassOrder ==
    phase = "optimized" =>
        /\ node =
              collapse_set_zero(
                collapse_previous(
                  collapse_next(
                    collapse_decrements(
                      collapse_increments(
                        remove_comment_loop(parsed.node))))))
        /\ ~HasZeroingTokens(tokens) => CountSetCells(node.children) = 0
        /\ \A c \in PlainChars :
              source = << c >> \o DoubleDecrementSource =>
                 Shape(node).children[2]
                    = Shape(LoopOf(<< N("Decrement", 2) >>))

\* `.[--]` optimized: an Output and the loop, its two decrements merged.
C28_Witness ==
    /\ phase = "optimized"
    /\ source = << "." >> \o DoubleDecrementSource
    /\ node.children =
          << Leaf("Output", 0, 1, 1),
             Node("Loop", 0, << Leaf("Decrement", 2, 1, 3) >>, 1, 2) >>

====
